---------------------------- MODULE Spec2Model ----------------------------
(***************************************************************************)
(* Model of inspect_ai's incremental ZIP appender                          *)
(* (src/src/inspect_ai/_util/zip.py, class ZipAppender).                   *)
(*                                                                         *)
(* The archive stream is a sequence of bytes with a position, as a         *)
(* BinaryIO is.  Every record the appender reads or writes is modelled     *)
(* byte for byte: struct.pack / struct.unpack, zlib.crc32, the raw DEFLATE *)
(* stream zlib emits for short payloads, and str.encode("utf-8").          *)
(***************************************************************************)
EXTENDS Integers, Sequences, FiniteSets, TLC

(***************************************************************************)
(* Bounds of the model.                                                    *)
(***************************************************************************)
\* append_file calls in one run
MaxAppends == 2
\* append_file calls in one run that end in an I/O error
MaxFailures == 1
\* bytes of a failing write that reach the stream before it raises
PartialWrite == 5

(***************************************************************************)
(* Generic helpers on byte sequences.                                      *)
(***************************************************************************)
Min(a, b) == IF a < b THEN a ELSE b

\* b[i:j] of Python, 0-based, clipped to the length of b
Slice(b, i, j) == SubSeq(b, Min(i, Len(b)) + 1, Min(j, Len(b)))

\* b.startswith(p)
StartsWith(b, p) == Len(b) >= Len(p) /\ SubSeq(b, 1, Len(p)) = p

Zeros(n) == [i \in 1..n |-> 0]

(***************************************************************************)
(* struct.pack / struct.unpack, little-endian.                             *)
(***************************************************************************)
\* largest value struct.pack("<H", v) accepts; a larger v raises struct.error
USHRT_MAX == 65535

\* struct.pack("<H", v) for 0 <= v <= USHRT_MAX
pack_H(v) == <<v % 256, (v \div 256) % 256>>

\* struct.pack("<L", v)
pack_L(v) ==
    <<v % 256, (v \div 256) % 256, (v \div 65536) % 256, (v \div 16777216) % 256>>

\* struct.unpack("<H", b)[0]; b must hold exactly 2 bytes
unpack_H(b) == b[1] + 256 * b[2]

\* struct.unpack("<L", b)[0]; b must hold exactly 4 bytes
unpack_L(b) == b[1] + 256 * b[2] + 65536 * b[3] + 16777216 * b[4]

(***************************************************************************)
(* zlib.crc32: the reflected CRC-32 of IEEE 802.3.  A 32-bit value is kept *)
(* as its two 16-bit halves, hi and lo.                                    *)
(***************************************************************************)
RECURSIVE BitXor(_, _)
BitXor(a, b) ==
    IF a = 0 THEN b
    ELSE IF b = 0 THEN a
    ELSE ((a + b) % 2) + 2 * BitXor(a \div 2, b \div 2)

\* the polynomial 0xEDB88320
CrcPoly == [hi |-> 60856, lo |-> 33568]

\* one step: crc = (crc >> 1) ^ (poly if crc & 1 else 0)
CrcShift(c) ==
    LET sh == [hi |-> c.hi \div 2, lo |-> (c.lo \div 2) + 32768 * (c.hi % 2)]
    IN  IF c.lo % 2 = 1
        THEN [hi |-> BitXor(sh.hi, CrcPoly.hi), lo |-> BitXor(sh.lo, CrcPoly.lo)]
        ELSE sh

\* the 256-entry table: eight steps from each byte value
CrcTable ==
    [b \in 0..255 |->
        CrcShift(CrcShift(CrcShift(CrcShift(
        CrcShift(CrcShift(CrcShift(CrcShift([hi |-> 0, lo |-> b]))))))))]

RECURSIVE CrcUpdate(_, _)
\* per byte: crc = table[(crc ^ byte) & 0xFF] ^ (crc >> 8)
CrcUpdate(c, data) ==
    IF data = <<>> THEN c
    ELSE LET t == CrcTable[BitXor(c.lo % 256, Head(data))]
         IN  CrcUpdate([hi |-> BitXor(t.hi, c.hi \div 256),
                        lo |-> BitXor(t.lo, (c.lo \div 256) + 256 * (c.hi % 256))],
                       Tail(data))

\* zlib.crc32(data)
crc32(data) ==
    LET c == CrcUpdate([hi |-> 65535, lo |-> 65535], data)
    IN  [hi |-> BitXor(c.hi, 65535), lo |-> BitXor(c.lo, 65535)]

\* struct.pack("<L", crc) of a 32-bit value kept as halves
pack_L32(c) == pack_H(c.lo) \o pack_H(c.hi)

(***************************************************************************)
(* Raw DEFLATE (wbits=-15) as zlib emits it at level 9 for a short         *)
(* payload: one final block with the fixed Huffman code, every byte a      *)
(* literal (no match is possible below MIN_MATCH bytes of history), then   *)
(* the end-of-block code, bits packed least significant first.             *)
(***************************************************************************)
\* the n low bits of v, most significant first (Huffman codes are sent so)
Bits(v, n) == [i \in 1..n |-> (v \div (2 ^ (n - i))) % 2]

\* fixed Huffman code of a literal byte: 8 bits from 0x30 for 0..143,
\* 9 bits from 0x190 for 144..255
LitCode(b) == IF b < 144 THEN Bits(48 + b, 8) ELSE Bits(400 + (b - 144), 9)

RECURSIVE LitCodes(_)
LitCodes(data) ==
    IF data = <<>> THEN <<>> ELSE LitCode(Head(data)) \o LitCodes(Tail(data))

\* bytes of a bit string, first bit in the least significant position
PackBits(bits) ==
    LET n == (Len(bits) + 7) \div 8
        bit(i) == IF i <= Len(bits) THEN bits[i] ELSE 0
    IN  [k \in 1..n |->
            bit(8*k - 7) + 2 * bit(8*k - 6) + 4 * bit(8*k - 5) + 8 * bit(8*k - 4)
            + 16 * bit(8*k - 3) + 32 * bit(8*k - 2) + 64 * bit(8*k - 1)
            + 128 * bit(8*k)]

\* compressor.compress(data) alone: for a short payload zlib holds every
\* byte back until flush()
Deflate_without_flush(data) == <<>>

\* compressor.compress(data) + compressor.flush()
Deflate(data) ==
    PackBits(<<1, 1, 0>> \o LitCodes(data) \o <<0, 0, 0, 0, 0, 0, 0>>)

(***************************************************************************)
(* str.encode("utf-8"); a str is a sequence of code points.                *)
(***************************************************************************)
Utf8Char(c) ==
    IF c < 128 THEN <<c>>
    ELSE IF c < 2048 THEN <<192 + (c \div 64), 128 + (c % 64)>>
    ELSE <<224 + (c \div 4096), 128 + ((c \div 64) % 64), 128 + (c % 64)>>

RECURSIVE encode_utf8(_)
encode_utf8(s) ==
    IF s = <<>> THEN <<>> ELSE Utf8Char(Head(s)) \o encode_utf8(Tail(s))


(***************************************************************************)
(* The stream: file.read, file.write at a position.                        *)
(***************************************************************************)
\* the bytes of f after file.write(b) at position p (a write past the end
\* first fills the gap with zero bytes)
WriteAt(f, p, b) ==
    IF b = <<>> THEN f
    ELSE (IF p > Len(f) THEN f \o Zeros(p - Len(f)) ELSE SubSeq(f, 1, p))
         \o b \o SubSeq(f, p + Len(b) + 1, Len(f))

\* file.read(n) at position p: at most n bytes, fewer at the end of the file
ReadAt(f, p, n) == Slice(f, p, p + n)

\* no I/O fault during a call
NoFault == [at |-> 0, wrote |-> 0]

\* One file.write(b) of a call on the stream s = [file, pos, n, err], where
\* n counts the writes of the call so far and err says a write has raised.
\* The write numbered fault.at raises OSError after fault.wrote of its bytes
\* reached the stream; once a write has raised, the rest of the call is
\* skipped.
write(s, b, fault) ==
    IF s.err THEN s
    ELSE IF s.n + 1 = fault.at
    THEN LET part == SubSeq(b, 1, Min(fault.wrote, Len(b)))
         IN  [file |-> WriteAt(s.file, s.pos, part), pos |-> s.pos + Len(part),
              n |-> s.n + 1, err |-> TRUE]
    ELSE [file |-> WriteAt(s.file, s.pos, b), pos |-> s.pos + Len(b),
          n |-> s.n + 1, err |-> FALSE]

\* only the entry of this call written, not the directory so far
write_entries_new_only(s, entries, fault) ==
    write(s, entries[Len(entries)], fault)

RECURSIVE write_entries(_, _, _)
\* for entry in self.existing_entries: self.file.write(entry)
write_entries(s, entries, fault) ==
    IF entries = <<>> THEN s
    ELSE write_entries(write(s, Head(entries), fault), Tail(entries), fault)

(***************************************************************************)
(* ZipAppender: the signatures and the directory scan of __init__.         *)
(***************************************************************************)
ZIP_HEADER == <<80, 75, 3, 4>>

CENTRAL_DIR_HEADER == <<80, 75, 1, 2>>

END_CENTRAL_DIR == <<80, 75, 5, 6>>

\* the tail window of _find_end_central_dir
CHUNK_SIZE == 1024

\* data.find(sub): the lowest 0-based index at which sub occurs, or -1
find_first(data, sub) ==
    LET hits == {i \in 0..(Len(data) - Len(sub)) :
                    SubSeq(data, i + 1, i + Len(sub)) = sub}
    IN  IF hits = {} THEN -1 ELSE CHOOSE i \in hits : \A j \in hits : i <= j

\* data.rfind(sub): the highest 0-based index at which sub occurs, or -1
rfind(data, sub) ==
    LET hits == {i \in 0..(Len(data) - Len(sub)) :
                    SubSeq(data, i + 1, i + Len(sub)) = sub}
    IN  IF hits = {} THEN -1 ELSE CHOOSE i \in hits : \A j \in hits : j <= i

\* _find_end_central_dir: the position of the EOCD signature, or -1 where
\* the code raises ValueError
find_end_central_dir(f) ==
    LET file_size == Len(f)
        chunk_size == Min(CHUNK_SIZE, file_size)
        data == SubSeq(f, file_size - chunk_size + 1, file_size)
        p == rfind(data, END_CENTRAL_DIR)
    IN  IF p = -1 THEN -1 ELSE file_size - chunk_size + p

\* _read_central_dir_entry keeping the 46-byte header only
read_central_dir_entry_header_only(f, p) ==
    LET entry == ReadAt(f, p, 46)
    IN  IF Len(entry) < 34 THEN [err |-> "struct.error", data |-> <<>>]
        ELSE [err |-> "ok", data |-> entry]

\* _read_central_dir_entry at position p: the bytes read, or "struct.error"
\* when the 46-byte header is cut before its three length fields
read_central_dir_entry(f, p) ==
    LET entry == ReadAt(f, p, 46)
    IN  IF Len(entry) < 34 THEN [err |-> "struct.error", data |-> <<>>]
        ELSE LET name_length == unpack_H(Slice(entry, 28, 30))
                 extra_length == unpack_H(Slice(entry, 30, 32))
                 comment_length == unpack_H(Slice(entry, 32, 34))
                 p1 == p + Len(entry)
                 filename == ReadAt(f, p1, name_length)
                 p2 == p1 + Len(filename)
                 extra == ReadAt(f, p2, extra_length)
                 p3 == p2 + Len(extra)
                 comment == ReadAt(f, p3, comment_length)
             IN  [err |-> "ok", data |-> entry \o filename \o extra \o comment]

RECURSIVE read_entries_prepending(_, _, _, _)
\* the loop of _load_central_dir with existing_entries.insert(0, entry)
read_entries_prepending(f, p, n, acc) ==
    IF n = 0 THEN [err |-> "ok", entries |-> acc, pos |-> p]
    ELSE LET r == read_central_dir_entry(f, p)
         IN  IF r.err # "ok"
             THEN [err |-> r.err, entries |-> acc, pos |-> p + Len(ReadAt(f, p, 46))]
             ELSE read_entries_prepending(f, p + Len(r.data), n - 1,
                                          <<r.data>> \o acc)

RECURSIVE read_entries(_, _, _, _)
\* the loop of _load_central_dir: n more entries read from position p and
\* appended to acc; an entry that cannot be read ends the loop
read_entries(f, p, n, acc) ==
    IF n = 0 THEN [err |-> "ok", entries |-> acc, pos |-> p]
    ELSE LET r == read_central_dir_entry(f, p)
         IN  IF r.err # "ok"
             THEN [err |-> r.err, entries |-> acc, pos |-> p + Len(ReadAt(f, p, 46))]
             ELSE read_entries(f, p + Len(r.data), n - 1, Append(acc, r.data))

\* _load_central_dir on the bytes f: the outcome, the entries loaded, the
\* stream position left behind and the EOCD position found
load_central_dir(f) ==
    LET eocd_pos == find_end_central_dir(f)
        eocd == ReadAt(f, eocd_pos, 22)
    IN  IF eocd_pos = -1
        THEN [err |-> "ValueError", entries |-> <<>>, pos |-> Len(f), eocd_pos |-> -1]
        ELSE IF ~StartsWith(eocd, END_CENTRAL_DIR)
        THEN [err |-> "ValueError", entries |-> <<>>, pos |-> eocd_pos + Len(eocd),
              eocd_pos |-> eocd_pos]
        ELSE IF Len(eocd) < 20
        THEN [err |-> "struct.error", entries |-> <<>>, pos |-> eocd_pos + Len(eocd),
              eocd_pos |-> eocd_pos]
        ELSE LET num_entries == unpack_H(Slice(eocd, 8, 10))
                 cd_offset == unpack_L(Slice(eocd, 16, 20))
                 r == read_entries(f, cd_offset, num_entries, <<>>)
             IN  [err |-> r.err, entries |-> r.entries, pos |-> r.pos,
                  eocd_pos |-> eocd_pos]

(***************************************************************************)
(* ZipAppender.append_file: the records it builds.                         *)
(***************************************************************************)
\* the local file header without the UTF-8 bit of the flags
local_header_flags_zero(crc, compressed_data, data, encoded_filename) ==
    ZIP_HEADER
    \o pack_H(20) \o pack_H(0) \o pack_H(8) \o pack_H(0) \o pack_H(0)
    \o pack_L32(crc) \o pack_L(Len(compressed_data)) \o pack_L(Len(data))
    \o pack_H(Len(encoded_filename)) \o pack_H(0)
    \o encoded_filename

\* the local file header of append_file (lines 66-79)
local_header(crc, compressed_data, data, encoded_filename) ==
    ZIP_HEADER
    \o pack_H(20) \o pack_H(2048) \o pack_H(8) \o pack_H(0) \o pack_H(0)
    \o pack_L32(crc) \o pack_L(Len(compressed_data)) \o pack_L(Len(data))
    \o pack_H(Len(encoded_filename)) \o pack_H(0)
    \o encoded_filename

\* the central directory entry with the offset field left at zero
central_dir_entry_offset_zero(crc, compressed_data, data, encoded_filename, local_header_offset) ==
    CENTRAL_DIR_HEADER
    \o pack_H(20) \o pack_H(20) \o pack_H(2048) \o pack_H(8) \o pack_H(0) \o pack_H(0)
    \o pack_L32(crc) \o pack_L(Len(compressed_data)) \o pack_L(Len(data))
    \o pack_H(Len(encoded_filename)) \o pack_H(0) \o pack_H(0) \o pack_H(0) \o pack_H(0)
    \o pack_L(0) \o pack_L(0)
    \o encoded_filename

\* the central directory entry of append_file (lines 84-103)
central_dir_entry(crc, compressed_data, data, encoded_filename, local_header_offset) ==
    CENTRAL_DIR_HEADER
    \o pack_H(20) \o pack_H(20) \o pack_H(2048) \o pack_H(8) \o pack_H(0) \o pack_H(0)
    \o pack_L32(crc) \o pack_L(Len(compressed_data)) \o pack_L(Len(data))
    \o pack_H(Len(encoded_filename)) \o pack_H(0) \o pack_H(0) \o pack_H(0) \o pack_H(0)
    \o pack_L(0) \o pack_L(local_header_offset)
    \o encoded_filename

\* the EOCD record with cd_size and cd_offset in each other's place
end_central_dir_swapped(num_entries, cd_size, cd_offset) ==
    END_CENTRAL_DIR
    \o pack_H(0) \o pack_H(0) \o pack_H(num_entries) \o pack_H(num_entries)
    \o pack_L(cd_offset) \o pack_L(cd_size) \o pack_H(0)

\* the EOCD record with the entry count taken before the new entry was added
end_central_dir_stale_count(num_entries, cd_size, cd_offset) ==
    END_CENTRAL_DIR
    \o pack_H(0) \o pack_H(0) \o pack_H(num_entries - 1) \o pack_H(num_entries - 1)
    \o pack_L(cd_size) \o pack_L(cd_offset) \o pack_H(0)

\* the end of central directory record of append_file (lines 111-122)
end_central_dir(num_entries, cd_size, cd_offset) ==
    END_CENTRAL_DIR
    \o pack_H(0) \o pack_H(0) \o pack_H(num_entries) \o pack_H(num_entries)
    \o pack_L(cd_size) \o pack_L(cd_offset) \o pack_H(0)

(***************************************************************************)
(* Archives the appender is opened on.  A reference writer (zipfile's      *)
(* ZipFile.writestr, as in the tests' create_zip) stores each entry        *)
(* uncompressed, with no flags, and ends the file with the directory and   *)
(* an EOCD record that may carry a comment.                                *)
(***************************************************************************)
ref_local(item) ==
    ZIP_HEADER
    \o pack_H(20) \o pack_H(0) \o pack_H(0) \o pack_H(0) \o pack_H(33)
    \o pack_L32(crc32(item.data)) \o pack_L(Len(item.data)) \o pack_L(Len(item.data))
    \o pack_H(Len(item.name)) \o pack_H(0)
    \o item.name \o item.data

ref_central(item, offset) ==
    CENTRAL_DIR_HEADER
    \o <<20, 3>> \o pack_H(20) \o pack_H(0) \o pack_H(0) \o pack_H(0) \o pack_H(33)
    \o pack_L32(crc32(item.data)) \o pack_L(Len(item.data)) \o pack_L(Len(item.data))
    \o pack_H(Len(item.name)) \o pack_H(0) \o pack_H(0) \o pack_H(0) \o pack_H(0)
    \o <<0, 0, 128, 1>> \o pack_L(offset)
    \o item.name

RECURSIVE ref_parts(_, _, _)
\* the local entries and the directory of the items, after the parts so far
ref_parts(items, locals, cd) ==
    IF items = <<>> THEN [locals |-> locals, cd |-> cd]
    ELSE ref_parts(Tail(items), locals \o ref_local(Head(items)),
                   cd \o ref_central(Head(items), Len(locals)))

RefArchive(items, comment) ==
    LET parts == ref_parts(items, <<>>, <<>>)
    IN  parts.locals \o parts.cd
        \o END_CENTRAL_DIR \o pack_H(0) \o pack_H(0)
        \o pack_H(Len(items)) \o pack_H(Len(items))
        \o pack_L(Len(parts.cd)) \o pack_L(Len(parts.locals))
        \o pack_H(Len(comment)) \o comment

\* initial.txt of the tests' fixture, with short names and payloads
Item1 == [name |-> <<105>>, data |-> <<120>>]

\* an entry whose stored payload is the four bytes of the EOCD signature
Item2 == [name |-> <<106>>, data |-> END_CENTRAL_DIR]

\* a comment long enough to outlast what one append writes
LongComment == [i \in 1..150 |-> 99]

\* an archive cut off behind its trailer: the EOCD record stands exactly at
\* the start of the tail window and names a directory that lies at the end
\* of the file, where nothing can be read
CutArchive == end_central_dir(1, 46, CHUNK_SIZE) \o Zeros(CHUNK_SIZE - 22)

InitialStreams ==
    { <<>>,                                   \* a stream with no bytes
      <<1, 2, 3, 4, 5>>,                      \* bytes that are no archive
      RefArchive(<<>>, <<>>),                 \* the new archive of log_init
      RefArchive(<<Item1>>, <<>>),            \* the tests' sample_zip
      RefArchive(<<Item1, Item2>>, <<>>),
      RefArchive(<<Item1>>, LongComment),
      CutArchive,
      RefArchive(<<>>, Zeros(CHUNK_SIZE - 21)) }     \* EOCD just outside the window

\* the inputs of append_file: filenames (str, as code points: "a" and the
\* Cyrillic letter of the tests' unicode filename) and payloads
Filenames == {<<97>>, <<1092>>}

Payloads == {<<>>, <<200, 120>>}

(***************************************************************************)
(* The state.                                                              *)
(***************************************************************************)
VARIABLES
    file,              \* the bytes of the stream self.file
    pos,               \* the position of the stream
    closed,            \* the stream has been closed
    existing_entries,  \* self.existing_entries
    pc,                \* "new", "open", "init_failed" or "exited"
    err,               \* how the last call ended: "none", "ok" or the exception
    file0,             \* history: the bytes the appender was opened on
    eocd_found,        \* history: what _find_end_central_dir returned, or -1
    calls,             \* history: the append_file calls made, in order, each
                       \* with its outcome, the position it started at and
                       \* whether it added its entry to existing_entries
    exists,            \* EvalRecorder: os.path.exists(zip_file)
    archive,           \* the entries of the log file, in the order written
    tracked,           \* the key of the eval is in self.data
    samples,           \* ZipLogFile.samples, the buffer
    summary_counter,   \* ZipLogFile.summary_counter
    summaries,         \* ZipLogFile.summaries, the master list
    log_start,         \* ZipLogFile.log_start: "None" or "LogStart"
    logged,            \* history: the samples logged, in order
    inits,             \* history: the log_init calls made
    op,                \* history: the recorder method called last
    rerr               \* how the last recorder call ended

\* the variables of the appender
zvars == <<file, pos, closed, existing_entries, pc, err, file0, eocd_found, calls>>

\* the variables of the recorder
rvars == <<exists, archive, tracked, samples, summary_counter, summaries,
           log_start, logged, inits, op, rerr>>

vars == <<zvars, rvars>>

\* no recorder: EvalRecorder.__init__ leaves self.data empty
RecorderIdle ==
    /\ exists = FALSE
    /\ archive = <<>>
    /\ tracked = FALSE
    /\ samples = <<>>
    /\ summary_counter = 0
    /\ summaries = <<>>
    /\ log_start = "None"
    /\ logged = <<>>
    /\ inits = 0
    /\ op = "none"
    /\ rerr = "none"

Init ==
    /\ file \in InitialStreams
    /\ pos \in {0, Len(file)}
    /\ closed = FALSE
    /\ existing_entries = <<>>
    /\ pc = "new"
    /\ err = "none"
    /\ file0 = file
    /\ eocd_found = -1
    /\ calls = <<>>
    /\ RecorderIdle

\* ZipAppender.__init__
Construct ==
    /\ pc = "new"
    /\ LET r == load_central_dir(file)
       IN  /\ existing_entries' = r.entries
           /\ pos' = r.pos
           /\ err' = r.err
           /\ pc' = IF r.err = "ok" THEN "open" ELSE "init_failed"
           /\ eocd_found' = r.eocd_pos
    /\ UNCHANGED <<file, closed, file0, calls, rvars>>

\* the I/O faults a call of append_file may meet: none, or a write raising
\* after PartialWrite of its bytes: that of the header, of the payload, of
\* the first directory entry or of the EOCD record
Faults ==
    {NoFault} \cup
    IF Cardinality({i \in 1..Len(calls) : calls[i].err = "OSError"}) < MaxFailures
    THEN [at : {1, 2, 3, Len(existing_entries) + 4}, wrote : {PartialWrite}]
    ELSE {}

\* ZipAppender.append_file(filename, data), with the I/O fault it meets
append_file(filename, data, fault) ==
    LET local_header_offset == pos
        compressed_data == Deflate(data)
        crc == crc32(data)
        encoded_filename == encode_utf8(filename)
        header == local_header(crc, compressed_data, data, encoded_filename)
        s0 == [file |-> file, pos |-> pos, n |-> 0, err |-> FALSE]
        s1 == write(s0, header, fault)
        s2 == write(s1, compressed_data, fault)
        cd_entry == central_dir_entry(crc, compressed_data, data, encoded_filename,
                                      local_header_offset)
        entries == Append(existing_entries, cd_entry)
        cd_offset == s2.pos
        s3 == write_entries(s2, entries, fault)
        eocd == end_central_dir(Len(entries), s3.pos - cd_offset, cd_offset)
        s4 == write(s3, eocd, fault)
        call(e, added) == [filename |-> filename, data |-> data, err |-> e,
                           offset |-> local_header_offset, added |-> added]
    IN  IF Len(encoded_filename) > USHRT_MAX
        THEN \* struct.pack("<H", len(encoded_filename)) raises: nothing written
             /\ err' = "struct.error"
             /\ calls' = Append(calls, call("struct.error", FALSE))
             /\ UNCHANGED <<file, pos, existing_entries>>
        ELSE IF s2.err
        THEN \* a write of lines 81-82 raised
             /\ file' = s2.file
             /\ pos' = s2.pos
             /\ err' = "OSError"
             /\ calls' = Append(calls, call("OSError", FALSE))
             /\ UNCHANGED existing_entries
        ELSE IF s3.err
        THEN \* a write of line 109 raised
             /\ existing_entries' = entries
             /\ file' = s3.file
             /\ pos' = s3.pos
             /\ err' = "OSError"
             /\ calls' = Append(calls, call("OSError", TRUE))
        ELSE IF Len(entries) > USHRT_MAX
        THEN \* struct.pack("<H", len(self.existing_entries)) raises
             /\ existing_entries' = entries
             /\ file' = s3.file
             /\ pos' = s3.pos
             /\ err' = "struct.error"
             /\ calls' = Append(calls, call("struct.error", TRUE))
        ELSE /\ existing_entries' = entries
             /\ file' = s4.file
             /\ pos' = s4.pos
             /\ err' = IF s4.err THEN "OSError" ELSE "ok"
             /\ calls' = Append(calls, call(IF s4.err THEN "OSError" ELSE "ok", TRUE))

AppendFile ==
    /\ pc = "open"
    /\ Len(calls) < MaxAppends
    /\ \E filename \in Filenames, data \in Payloads, fault \in Faults :
           append_file(filename, data, fault)
    /\ UNCHANGED <<closed, pc, file0, eocd_found, rvars>>

\* ZipAppender.__exit__: flush, which may raise, then close
Exit ==
    /\ pc = "open"
    /\ \E flush_ok \in BOOLEAN :
           /\ closed' = flush_ok
           /\ err' = IF flush_ok THEN "ok" ELSE "OSError"
    /\ pc' = "exited"
    /\ UNCHANGED <<file, pos, existing_entries, file0, eocd_found, calls, rvars>>

Next == Construct \/ AppendFile \/ Exit

Spec == Init /\ [][Next]_vars

(***************************************************************************)
(* A conforming reader, for stating the claims: it finds the EOCD in the   *)
(* last 22 bytes, walks the directory, follows each entry to its local     *)
(* header and decodes the payload (stored, or raw DEFLATE with the fixed   *)
(* Huffman code), as zipfile's testzip does.                               *)
(***************************************************************************)
\* value of the n bits of bits from index i, most significant first
BitsValue(bits, i, n) ==
    IF n = 7
    THEN 64 * bits[i] + 32 * bits[i+1] + 16 * bits[i+2] + 8 * bits[i+3]
         + 4 * bits[i+4] + 2 * bits[i+5] + bits[i+6]
    ELSE IF n = 8
    THEN 128 * bits[i] + 64 * bits[i+1] + 32 * bits[i+2] + 16 * bits[i+3]
         + 8 * bits[i+4] + 4 * bits[i+5] + 2 * bits[i+6] + bits[i+7]
    ELSE 256 * bits[i] + 128 * bits[i+1] + 64 * bits[i+2] + 32 * bits[i+3]
         + 16 * bits[i+4] + 8 * bits[i+5] + 4 * bits[i+6] + 2 * bits[i+7] + bits[i+8]

RECURSIVE InflateFrom(_, _, _)
\* decode fixed-Huffman symbols from bit i on, after the literals in acc
InflateFrom(bits, i, acc) ==
    IF i + 6 > Len(bits) THEN [ok |-> FALSE, data |-> acc]
    ELSE IF BitsValue(bits, i, 7) = 0 THEN [ok |-> TRUE, data |-> acc]
    ELSE IF i + 7 > Len(bits) THEN [ok |-> FALSE, data |-> acc]
    ELSE IF BitsValue(bits, i, 8) >= 48 /\ BitsValue(bits, i, 8) <= 191
    THEN InflateFrom(bits, i + 8, Append(acc, BitsValue(bits, i, 8) - 48))
    ELSE IF i + 8 > Len(bits) THEN [ok |-> FALSE, data |-> acc]
    ELSE IF BitsValue(bits, i, 9) >= 400
    THEN InflateFrom(bits, i + 9, Append(acc, BitsValue(bits, i, 9) - 256))
    ELSE [ok |-> FALSE, data |-> acc]

\* zlib.decompress(b, wbits=-15) of one final fixed-Huffman block of literals
Inflate(b) ==
    LET bits == [i \in 1..(8 * Len(b)) |->
                    (b[((i - 1) \div 8) + 1] \div (2 ^ ((i - 1) % 8))) % 2]
    IN  IF Len(bits) < 3 \/ bits[1] # 1 \/ bits[2] # 1 \/ bits[3] # 0
        THEN [ok |-> FALSE, data |-> <<>>]
        ELSE InflateFrom(bits, 4, <<>>)

\* the fields of a central directory entry e (a blob of bytes)
CdName(e) == Slice(e, 46, 46 + unpack_H(Slice(e, 28, 30)))

CdOffset(e) == unpack_L(Slice(e, 42, 46))

\* e is a whole central directory entry
CdWhole(e) ==
    /\ Len(e) >= 46
    /\ StartsWith(e, CENTRAL_DIR_HEADER)
    /\ Len(e) = 46 + unpack_H(Slice(e, 28, 30)) + unpack_H(Slice(e, 30, 32))
                + unpack_H(Slice(e, 32, 34))

\* the local entry the directory entry e points to in the bytes f, read as
\* a reader does: where it lies, what its header says and what it decodes to
LocalOf(f, e) ==
    LET o == CdOffset(e)
        h == Slice(f, o, o + 30)
        whole == Len(h) = 30
        nlen == IF whole THEN unpack_H(Slice(h, 26, 28)) ELSE 0
        xlen == IF whole THEN unpack_H(Slice(h, 28, 30)) ELSE 0
        csize == IF whole THEN unpack_L(Slice(h, 18, 22)) ELSE 0
        start == o + 30 + nlen + xlen
        payload == Slice(f, start, start + csize)
        method == IF whole THEN unpack_H(Slice(h, 8, 10)) ELSE 0
        decoded == IF method = 8 THEN Inflate(payload)
                   ELSE [ok |-> method = 0, data |-> payload]
    IN  [signed |-> StartsWith(h, ZIP_HEADER),
         flags |-> Slice(h, 6, 8),
         method |-> Slice(h, 8, 10),
         crc |-> Slice(h, 14, 18),
         csize |-> Slice(h, 18, 22),
         usize |-> Slice(h, 22, 26),
         name |-> Slice(f, o + 30, o + 30 + nlen),
         bytes |-> Slice(f, o, start + csize),
         whole |-> whole /\ Len(payload) = csize /\ start + csize <= Len(f),
         ok |-> decoded.ok,
         data |-> decoded.data]

\* the entry e reads back from f: header and directory agree and the
\* payload decodes to bytes of the stored length and CRC-32
EntryReads(f, e) ==
    LET l == LocalOf(f, e)
    IN  /\ CdWhole(e)
        /\ l.signed /\ l.whole /\ l.ok
        /\ l.name = CdName(e)
        /\ l.crc = Slice(e, 16, 20) /\ l.crc = pack_L32(crc32(l.data))
        /\ l.usize = Slice(e, 24, 28) /\ l.usize = pack_L(Len(l.data))
        /\ l.csize = Slice(e, 20, 24)

\* the EOCD record a reader finds in the last 22 bytes of f
Trailer(f) ==
    LET t == Slice(f, Len(f) - 22, Len(f))
        whole == Len(f) >= 22 /\ StartsWith(t, END_CENTRAL_DIR)
    IN  [whole |-> whole,
         at |-> Len(f) - 22,
         entries_on_disk |-> IF whole THEN unpack_H(Slice(t, 8, 10)) ELSE 0,
         total_entries |-> IF whole THEN unpack_H(Slice(t, 10, 12)) ELSE 0,
         cd_size |-> IF whole THEN unpack_L(Slice(t, 12, 16)) ELSE 0,
         cd_offset |-> IF whole THEN unpack_L(Slice(t, 16, 20)) ELSE 0,
         comment_length |-> IF whole THEN unpack_H(Slice(t, 20, 22)) ELSE 0]

RECURSIVE DirectoryFrom(_, _, _)
\* the n directory entries a reader walks from position p of f: each must
\* begin with the signature; "end" is where the walk stops
DirectoryFrom(f, p, n) ==
    IF n = 0 THEN [ok |-> TRUE, entries |-> <<>>, end |-> p]
    ELSE LET h == Slice(f, p, p + 46)
             size == 46 + unpack_H(Slice(h, 28, 30)) + unpack_H(Slice(h, 30, 32))
                     + unpack_H(Slice(h, 32, 34))
         IN  IF Len(h) < 46 \/ ~StartsWith(h, CENTRAL_DIR_HEADER) \/ p + size > Len(f)
             THEN [ok |-> FALSE, entries |-> <<>>, end |-> p]
             ELSE LET rest == DirectoryFrom(f, p + size, n - 1)
                  IN  [ok |-> rest.ok,
                       entries |-> <<Slice(f, p, p + size)>> \o rest.entries,
                       end |-> rest.end]

\* the directory of f as its trailer describes it
Directory(f) ==
    LET t == Trailer(f)
    IN  IF t.whole THEN DirectoryFrom(f, t.cd_offset, t.total_entries)
        ELSE [ok |-> FALSE, entries |-> <<>>, end |-> 0]

\* the trailer of f is the last 22 bytes, and exactly total_entries
\* directory entries lie between cd_offset and the trailer
DirectoryWellFormed(f) ==
    LET t == Trailer(f)
        d == Directory(f)
    IN  /\ t.whole
        /\ t.cd_offset + t.cd_size = t.at
        /\ d.ok
        /\ d.end = t.at

\* f is a valid archive for a reader (testzip succeeds)
ValidArchive(f) ==
    /\ DirectoryWellFormed(f)
    /\ \A i \in 1..Len(Directory(f).entries) : EntryReads(f, Directory(f).entries[i])

\* what a reader lists from f: name and decoded payload, in directory order
Listing(f) ==
    LET d == Directory(f).entries
    IN  [i \in 1..Len(d) |-> [name |-> CdName(d[i]), data |-> LocalOf(f, d[i]).data]]

\* the appender was opened on a well-formed archive
OpenedWellFormed == ValidArchive(file0)

\* the calls so far, all completed
AllCompleted == \A i \in 1..Len(calls) : calls[i].err = "ok"

\* the last call was an append_file that completed
AppendCompleted == pc = "open" /\ calls # <<>> /\ err = "ok"

\* the calls that added their entry to existing_entries, in order
AddedCalls == SelectSeq(calls, LAMBDA c : c.added)

\* the calls so far carry pairwise distinct filenames
DistinctNames ==
    \A i, j \in 1..Len(calls) : calls[i].filename = calls[j].filename => i = j

(***************************************************************************)
(* The claims.                                                             *)
(***************************************************************************)

\* C1 (monotonic validity): opened on a well-formed archive, after every
\* completed append_file the last 22 bytes of the file are an EOCD record,
\* its cd_offset + cd_size is the position where that record begins, and
\* exactly total_entries directory entries lie contiguously from cd_offset
\* up to it; every listed entry reads back (testzip succeeds).
C1_MonotonicValidity ==
    (OpenedWellFormed /\ AppendCompleted) =>
        LET t == Trailer(file)
            d == DirectoryFrom(file, t.cd_offset, t.total_entries)
        IN  /\ t.whole
            /\ t.cd_offset + t.cd_size = Len(file) - 22
            /\ d.ok
            /\ Len(d.entries) = t.total_entries
            /\ d.end = Len(file) - 22
            /\ ValidArchive(file)

C1_Witness ==
    /\ OpenedWellFormed /\ AppendCompleted
    /\ Len(calls) = 2 /\ AllCompleted
    /\ Trailer(file).total_entries >= 3

\* C2 (preservation): opened on a well-formed archive, a completed
\* append_file leaves every entry that existed before it untouched: its blob
\* keeps its place in existing_entries and is re-emitted byte for byte at
\* the same index of the new directory, the bytes of its local header and
\* payload are unchanged, and it still decodes to the same payload.
C2_Preservation ==
    [][ (OpenedWellFormed /\ pc = "open" /\ calls' # calls /\ err' = "ok") =>
            /\ Len(Directory(file').entries) > Len(existing_entries)
            /\ \A i \in 1..Len(existing_entries) :
                  LET e == existing_entries[i]
                  IN  /\ existing_entries'[i] = e
                      /\ Directory(file').entries[i] = e
                      /\ LocalOf(file, e).whole
                      /\ LocalOf(file', e).bytes = LocalOf(file, e).bytes
                      /\ EntryReads(file', e)
                      /\ Listing(file')[i].data = LocalOf(file, e).data ]_vars

C2_Witness ==
    /\ OpenedWellFormed /\ AppendCompleted
    /\ Len(Directory(file0).entries) = 2
    /\ Len(calls) = 2
    /\ Len(existing_entries) = 4

\* C3 (round trip): opened on a well-formed archive, after append_file
\* calls with pairwise distinct names the last of which completed, every
\* completed call (name, data) has a directory entry named name whose
\* offset points at a local header with that name, the CRC-32 and length of
\* data and a payload that inflates to exactly data, the empty payload
\* included.
C3_RoundTrip ==
    (OpenedWellFormed /\ AppendCompleted /\ DistinctNames) =>
        \A i \in 1..Len(calls) :
            calls[i].err = "ok" =>
                \E k \in 1..Len(Directory(file).entries) :
                    LET e == Directory(file).entries[k]
                        l == LocalOf(file, e)
                    IN  /\ CdName(e) = encode_utf8(calls[i].filename)
                        /\ l.signed
                        /\ l.name = encode_utf8(calls[i].filename)
                        /\ l.crc = pack_L32(crc32(calls[i].data))
                        /\ l.usize = pack_L(Len(calls[i].data))
                        /\ l.method = pack_H(8)
                        /\ l.ok
                        /\ l.data = calls[i].data

C3_Witness ==
    /\ OpenedWellFormed /\ AppendCompleted /\ DistinctNames /\ AllCompleted
    /\ Len(calls) = 2
    /\ calls[1].data = <<>>
    /\ calls[2].data = <<200, 120>>
    /\ calls[2].filename = <<1092>>

\* C4 (ordering): opened on a well-formed archive, existing_entries is at
\* every point the directory of the opened archive in its order followed by
\* one entry per append_file call that added one, in call order; and the
\* directory a completed append wrote is exactly that list.
C4_Ordering ==
    (OpenedWellFormed /\ pc \in {"open", "exited"}) =>
        LET d0 == Directory(file0).entries
        IN  /\ Len(existing_entries) = Len(d0) + Len(AddedCalls)
            /\ \A i \in 1..Len(d0) : existing_entries[i] = d0[i]
            /\ \A j \in 1..Len(AddedCalls) :
                  /\ CdName(existing_entries[Len(d0) + j])
                         = encode_utf8(AddedCalls[j].filename)
                  /\ CdOffset(existing_entries[Len(d0) + j]) = AddedCalls[j].offset
            /\ (AppendCompleted => Directory(file).entries = existing_entries)

C4_Witness ==
    /\ OpenedWellFormed /\ AppendCompleted
    /\ Len(Directory(file0).entries) = 2
    /\ Len(AddedCalls) = 2
    /\ AddedCalls[1].filename # AddedCalls[2].filename

\* C5 (entry count): opened on a well-formed archive of n entries, the
\* appender holds n entries, and after k append_file calls, all completed,
\* the EOCD fields entries_on_disk and total_entries of the file both equal
\* n + k = len(existing_entries).
C5_EntryCount ==
    (OpenedWellFormed /\ pc = "open" /\ AllCompleted) =>
        /\ Len(existing_entries) = Len(Directory(file0).entries) + Len(calls)
        /\ Trailer(file).entries_on_disk = Len(existing_entries)
        /\ Trailer(file).total_entries = Len(existing_entries)

C5_Witness ==
    /\ OpenedWellFormed /\ pc = "open" /\ AllCompleted
    /\ Len(Directory(file0).entries) = 1
    /\ Len(calls) = 2
    /\ Trailer(file).total_entries = 3

\* C6 as claimed (empty or new archive): constructing the appender on a
\* stream with no bytes succeeds and starts with zero entries.
C6_EmptyStreamOpens ==
    (file0 = <<>> /\ pc # "new") => (pc # "init_failed" /\ existing_entries = <<>>)

\* C6 as amended: a stream with no bytes is rejected with ValueError (it
\* holds no EOCD signature); constructing the appender on a well-formed
\* archive with no entries (the bare EOCD record of a new archive) succeeds
\* and starts with zero entries, and after append_file calls, all completed,
\* the file is a valid archive listing exactly the appended names and
\* payloads, in call order.
C6_NewArchive ==
    /\ (file0 = <<>> /\ pc # "new") =>
          (pc = "init_failed" /\ err = "ValueError" /\ existing_entries = <<>>)
    /\ (OpenedWellFormed /\ Directory(file0).entries = <<>> /\ pc # "new") =>
          /\ pc # "init_failed"
          /\ (calls = <<>> => existing_entries = <<>>)
          /\ (AppendCompleted /\ AllCompleted) =>
                /\ ValidArchive(file)
                /\ Listing(file) =
                       [i \in 1..Len(calls) |->
                           [name |-> encode_utf8(calls[i].filename),
                            data |-> calls[i].data]]

C6_Witness ==
    /\ OpenedWellFormed /\ Directory(file0).entries = <<>>
    /\ AppendCompleted /\ AllCompleted
    /\ Len(calls) = 2
    /\ Len(Listing(file)) = 2

\* the positions of the tail window of f, its last min(1024, len) bytes, at
\* which the EOCD signature stands
SignaturesInWindow(f) ==
    {p \in (Len(f) - Min(CHUNK_SIZE, Len(f)))..(Len(f) - 4) :
        SubSeq(f, p + 1, p + 4) = END_CENTRAL_DIR}

\* C7 (missing EOCD): when the tail window of the stream holds no EOCD
\* signature, construction fails with ValueError, no entry is loaded and
\* the bytes of the stream are unchanged; when it holds one, the position
\* used as the EOCD is the last at which the signature stands.
C7_MissingEocd ==
    pc # "new" =>
        /\ SignaturesInWindow(file0) = {} =>
              /\ pc = "init_failed"
              /\ err = "ValueError"
              /\ existing_entries = <<>>
              /\ file = file0
        /\ SignaturesInWindow(file0) # {} =>
              /\ eocd_found \in SignaturesInWindow(file0)
              /\ \A q \in SignaturesInWindow(file0) : q <= eocd_found

C7_Witness ==
    /\ pc = "init_failed"
    /\ Len(file0) > CHUNK_SIZE
    /\ StartsWith(file0, END_CENTRAL_DIR)
    /\ SignaturesInWindow(file0) = {}

\* an append_file call has failed with an I/O error part-way
Poisoned == \E i \in 1..Len(calls) : calls[i].err = "OSError"

\* C9 (poisoned state): once an append_file call has failed with an I/O
\* error, no later operation writes to the stream or changes
\* existing_entries.
C9_PoisonedRejects ==
    [][ Poisoned => (file' = file /\ existing_entries' = existing_entries) ]_vars

\* C10 (scoped release): after __exit__ the stream is closed, on every
\* path, the one on which the flush fails included.
C10_ScopedRelease == pc = "exited" => closed

\* C11 (seek-to-directory): a completed append_file on an archive that is
\* valid before the call starts its local header at the central directory
\* offset of that archive (the cd_offset of its EOCD record), wherever the
\* stream position is, so the old directory is overwritten.
C11_SeekToDirectory ==
    [][ (OpenedWellFormed /\ pc = "open" /\ AllCompleted
            /\ calls' # calls /\ err' = "ok") =>
            calls'[Len(calls')].offset = Trailer(file).cd_offset ]_vars

\* the sizes of the local entries the directory d of f points to, summed
LocalBytes(f, d) ==
    LET RECURSIVE sum(_)
        sum(i) == IF i = 0 THEN 0 ELSE Len(LocalOf(f, d[i]).bytes) + sum(i - 1)
    IN  sum(Len(d))

\* C12 (archive layout): after appends to a well-formed archive, all
\* completed, the file is the local entries back to back, one directory
\* and one EOCD: cd_offset is the sum of the sizes of the local entries and
\* the file length is cd_offset + cd_size + 22.
C12_ArchiveLayout ==
    (OpenedWellFormed /\ AppendCompleted /\ AllCompleted) =>
        LET t == Trailer(file)
        IN  /\ t.cd_offset = LocalBytes(file, Directory(file).entries)
            /\ Len(file) = t.cd_offset + t.cd_size + 22

\* C13 (back-pointer and header agreement): opened on a well-formed
\* archive, after appends the last of which completed, every directory entry
\* of the file stores an offset at which the file holds the local header
\* signature; and for every entry append_file added, flags (0x0800), method
\* (8), CRC-32, compressed size, uncompressed size and filename of the
\* directory entry equal those of the local header it points to.
C13_BackPointers ==
    (OpenedWellFormed /\ AppendCompleted) =>
        LET d == Directory(file).entries
            n0 == Len(Directory(file0).entries)
        IN  /\ Len(d) = n0 + Len(AddedCalls)
            /\ \A k \in 1..Len(d) : LocalOf(file, d[k]).signed
            /\ \A j \in 1..Len(AddedCalls) :
                  LET e == d[n0 + j]
                      l == LocalOf(file, e)
                  IN  /\ Slice(e, 8, 10) = pack_H(2048) /\ l.flags = pack_H(2048)
                      /\ Slice(e, 10, 12) = pack_H(8) /\ l.method = pack_H(8)
                      /\ Slice(e, 16, 20) = l.crc
                      /\ Slice(e, 20, 24) = l.csize
                      /\ Slice(e, 24, 28) = l.usize
                      /\ CdName(e) = l.name
                      /\ l.name = encode_utf8(AddedCalls[j].filename)

\* an append that failed after adding its entry, then one that completed
C13_Witness ==
    /\ OpenedWellFormed /\ AppendCompleted
    /\ Len(Directory(file0).entries) = 1
    /\ Len(calls) = 2
    /\ calls[1].err = "OSError" /\ calls[1].added
    /\ Len(Directory(file).entries) = 3

(***************************************************************************)
(* Streams with a located EOCD but a malformed directory, and the          *)
(* appender opened on them.                                                *)
(***************************************************************************)
\* the tests' one-entry archive with the signature of its directory entry
\* overwritten
BadSignatureArchive ==
    LET a == RefArchive(<<Item1>>, <<>>)
    IN  WriteAt(a, Len(ref_local(Item1)), <<80, 75, 9, 9>>)

\* the same archive with cd_offset pointing at the local header
WrongOffsetArchive ==
    LET a == RefArchive(<<Item1>>, <<>>)
    IN  WriteAt(a, Len(a) - 6, pack_L(0))

\* the same archive cut one byte short: an EOCD record of 21 bytes
ShortEocdArchive ==
    LET a == RefArchive(<<Item1>>, <<>>)
    IN  SubSeq(a, 1, Len(a) - 1)

\* an EOCD record followed by a directory entry cut off after 40 bytes
TruncatedEntryArchive ==
    end_central_dir(1, 46, 22) \o SubSeq(ref_central(Item1, 0), 1, 40)

MalformedStreams ==
    {BadSignatureArchive, WrongOffsetArchive, ShortEocdArchive,
     TruncatedEntryArchive, CutArchive}

InitMalformed ==
    /\ file \in MalformedStreams
    /\ pos \in {0, Len(file)}
    /\ closed = FALSE
    /\ existing_entries = <<>>
    /\ pc = "new"
    /\ err = "none"
    /\ file0 = file
    /\ eocd_found = -1
    /\ calls = <<>>
    /\ RecorderIdle

SpecMalformed == InitMalformed /\ [][Next]_vars

\* the EOCD the scan locates in f, or the directory it points to, is
\* malformed: the record is shorter than 22 bytes, or the walk of
\* total_entries entries from cd_offset meets an entry without the
\* signature or a truncated one, or does not end where the EOCD begins
MalformedDirectory(f) ==
    LET p == find_end_central_dir(f)
        eocd == ReadAt(f, p, 22)
        walk == DirectoryFrom(f, unpack_L(Slice(eocd, 16, 20)),
                              unpack_H(Slice(eocd, 10, 12)))
    IN  /\ p # -1
        /\ \/ Len(eocd) < 22
           \/ ~walk.ok
           \/ walk.end # p

\* C14 (malformed directory rejection): when the located EOCD or the
\* directory it points to is malformed, construction fails and loads no
\* entries.
C14_MalformedRejected ==
    (pc # "new" /\ MalformedDirectory(file0)) =>
        (pc = "init_failed" /\ existing_entries = <<>>)

(***************************************************************************)
(* Reopening: after the scope of one appender was left, a new ZipAppender  *)
(* is constructed on a new stream over the same file.                      *)
(***************************************************************************)
\* ZipAppender.__init__ on the file as the appender before left it
Reopen ==
    /\ pc = "exited"
    /\ LET r == load_central_dir(file)
       IN  /\ existing_entries' = r.entries
           /\ pos' = r.pos
           /\ err' = r.err
           /\ pc' = IF r.err = "ok" THEN "open" ELSE "init_failed"
           /\ eocd_found' = r.eocd_pos
    /\ closed' = FALSE
    /\ UNCHANGED <<file, file0, calls, rvars>>

NextReopen == Construct \/ AppendFile \/ Exit \/ Reopen

\* the appender on the new archive of log_init or on the tests' sample_zip
InitReopen ==
    /\ file \in {RefArchive(<<>>, <<>>), RefArchive(<<Item1>>, <<>>)}
    /\ pos = 0
    /\ closed = FALSE
    /\ existing_entries = <<>>
    /\ pc = "new"
    /\ err = "none"
    /\ file0 = file
    /\ eocd_found = -1
    /\ calls = <<>>
    /\ RecorderIdle

SpecReopen == InitReopen /\ [][NextReopen]_vars

\* the appender in use was constructed on the file after appends had
\* moved its EOCD record
Reopened == pc = "open" /\ eocd_found > find_end_central_dir(file0)

MaxSamples == 2
\* log_init calls in one behaviour
MaxInits == 2
\* log_start calls on one archive
MaxStarts == 1
\* log_finish calls on one archive
MaxFinishes == 2

\* an archive member name: a directory or file kind with the sample id and
\* epoch or the snapshot index that the name embeds (0 where it has none)
Name(kind, id, epoch) == [kind |-> kind, id |-> id, epoch |-> epoch]

\* _journal_path(START_JSON)
START_JSON == Name("_journal/start.json", 0, 0)

SUMMARIES_JSON == Name("summaries.json", 0, 0)

REDUCTIONS_JSON == Name("reductions.json", 0, 0)

HEADER_JSON == Name("header.json", 0, 0)

\* a sample file name that leaves the epoch out
sample_filename_without_epoch(id, epoch) == Name("samples", id, 0)

\* _sample_filename: samples/<id>_epoch_<epoch>.json
sample_filename(id, epoch) == Name("samples", id, epoch)

\* _journal_summary_path(_journal_summary_file(index)):
\* _journal/summaries/<index>.json
journal_summary_path(index) == Name("_journal/summaries", index, 0)

\* zip_file_data: the JSON bytes of a value
zip_file_data(data) == <<"json", data>>

\* json.loads(contents.decode())
json_loads(contents) == contents[2]

\* ZipWriter.write(filename, data) on the archive a: one more entry, last
ZipWriter_write(a, filename, data) == Append(a, [name |-> filename, data |-> data])

\* ZipReader.filenames(): the names in directory order
ZipReader_filenames(a) == [i \in 1..Len(a) |-> a[i].name]

\* filename in zip.filenames()
HasName(a, filename) == \E i \in 1..Len(a) : a[i].name = filename

\* ZipReader.read(filename), for a name the archive holds: the entry a
\* reader's name lookup ends on, the last one written under the name
ZipReader_read(a, filename) ==
    LET hits == {i \in 1..Len(a) : a[i].name = filename}
    IN  a[CHOOSE i \in hits : \A j \in hits : j <= i].data

\* _read_json
read_json(a, filename) == json_loads(ZipReader_read(a, filename))

\* EvalRecorder._write: one entry appended to the log file
write_entry(a, filename, data) == ZipWriter_write(a, filename, zip_file_data(data))

\* the samples an eval produces: (id, epoch) identifies one
Samples ==
    {[id |-> 1, epoch |-> 1, messages |-> "m"],
     [id |-> 2, epoch |-> 1, messages |-> "m"],
     [id |-> 1, epoch |-> 2, messages |-> "m"]}

\* SampleSummary(id=sample.id, epoch=sample.epoch, ...) of lines 278-286
SampleSummary(sample) == [id |-> sample.id, epoch |-> sample.epoch]

RECURSIVE write_samples(_, _)
\* the loop of _write_buffered_samples over the buffer buf: one
\* samples/<id>_epoch_<epoch>.json entry per buffered sample, in order
write_samples(a, buf) ==
    IF buf = <<>> THEN a
    ELSE write_samples(
             write_entry(a, sample_filename(Head(buf).id, Head(buf).epoch), Head(buf)),
             Tail(buf))

\* _write_buffered_samples with log.summaries = summaries for
\* log.summaries.extend(summaries)
write_buffered_samples_replacing(a, buf, counter, master) ==
    LET a1 == write_samples(a, buf)
        new == [i \in 1..Len(buf) |-> SampleSummary(buf[i])]
    IN  IF Len(new) > 0
        THEN [archive |-> write_entry(a1, journal_summary_path(counter + 1), new),
              summary_counter |-> counter + 1,
              summaries |-> new]
        ELSE [archive |-> a1, summary_counter |-> counter, summaries |-> master]

\* _write_buffered_samples on the archive a, the buffer buf, the counter
\* and the master list: what it leaves of each (the buffer is cleared)
write_buffered_samples(a, buf, counter, master) ==
    LET a1 == write_samples(a, buf)
        new == [i \in 1..Len(buf) |-> SampleSummary(buf[i])]
    IN  IF Len(new) > 0
        THEN [archive |-> write_entry(a1, journal_summary_path(counter + 1), new),
              summary_counter |-> counter + 1,
              summaries |-> master \o new]
        ELSE [archive |-> a1, summary_counter |-> counter, summaries |-> master]

\* _read_start: the start record of the journal, or None
read_start(a) == IF HasName(a, START_JSON) THEN "LogStart" ELSE "None"

RECURSIVE read_summary_counter_from(_, _, _)
\* the loop of _read_summary_counter from name i on
read_summary_counter_from(a, i, current_count) ==
    IF i > Len(a) THEN current_count
    ELSE IF a[i].name.kind = "_journal/summaries"
    THEN read_summary_counter_from(a, i + 1,
             IF a[i].name.id > current_count THEN a[i].name.id ELSE current_count)
    ELSE read_summary_counter_from(a, i + 1, current_count)

\* a counter that is not recovered from the journal
read_summary_counter_zero(a) == 0

\* _read_summary_counter
read_summary_counter(a) == read_summary_counter_from(a, 1, 0)

RECURSIVE read_snapshots(_, _, _, _)
\* the loop of _read_all_summaries: for i in range(first, stop), the
\* snapshots read and concatenated behind acc; a missing one raises
read_snapshots(a, first, stop, acc) ==
    IF first >= stop THEN [err |-> "ok", summaries |-> acc]
    ELSE IF ~HasName(a, journal_summary_path(first))
    THEN [err |-> "KeyError", summaries |-> acc]
    ELSE read_snapshots(a, first + 1, stop,
                        acc \o read_json(a, journal_summary_path(first)))

\* _read_all_summaries(zip, count)
read_all_summaries(a, count) ==
    IF HasName(a, SUMMARIES_JSON)
    THEN [err |-> "ok", summaries |-> read_json(a, SUMMARIES_JSON)]
    ELSE read_snapshots(a, 1, count, <<>>)

\* how many entries of the archive carry the name
Count(filename) == Cardinality({i \in 1..Len(archive) : archive[i].name = filename})

\* EvalRecorder.log_init
LogInit ==
    /\ op' = "log_init"
    /\ inits < MaxInits
    /\ inits' = inits + 1
    /\ IF ~exists
       THEN \* a new, empty archive
            /\ exists' = TRUE
            /\ archive' = <<>>
            /\ log_start' = "None"
            /\ summary_counter' = 0
            /\ summaries' = <<>>
            /\ samples' = <<>>
            /\ tracked' = TRUE
            /\ rerr' = "ok"
       ELSE LET count == read_summary_counter(archive)
                r == read_all_summaries(archive, count)
            IN  IF r.err # "ok"
                THEN /\ rerr' = r.err
                     /\ UNCHANGED <<exists, archive, log_start, summary_counter,
                                    summaries, samples, tracked>>
                ELSE /\ log_start' = read_start(archive)
                     /\ summary_counter' = count
                     /\ summaries' = r.summaries
                     /\ samples' = <<>>
                     /\ tracked' = TRUE
                     /\ rerr' = "ok"
                     /\ UNCHANGED <<exists, archive>>
    /\ UNCHANGED <<logged, zvars>>

\* EvalRecorder.log_start
LogStart ==
    /\ op' = "log_start"
    /\ tracked
    /\ Count(START_JSON) < MaxStarts
    /\ archive' = write_entry(archive, START_JSON, "LogStart")
    /\ log_start' = "LogStart"
    /\ rerr' = "ok"
    /\ UNCHANGED <<exists, tracked, samples, summary_counter, summaries, logged,
                   inits, zvars>>

\* EvalRecorder.log_sample
LogSample ==
    /\ op' = "log_sample"
    /\ tracked
    /\ Len(logged) < MaxSamples
    /\ \E sample \in Samples :
           /\ \A i \in 1..Len(logged) : logged[i] # sample
           /\ samples' = Append(samples, sample)
           /\ logged' = Append(logged, sample)
    /\ rerr' = "ok"
    /\ UNCHANGED <<exists, archive, tracked, summary_counter, summaries, log_start,
                   inits, zvars>>

\* EvalRecorder.flush
Flush ==
    /\ op' = "flush"
    /\ tracked
    /\ LET r == write_buffered_samples(archive, samples, summary_counter, summaries)
       IN  /\ archive' = r.archive
           /\ summary_counter' = r.summary_counter
           /\ summaries' = r.summaries
    /\ samples' = <<>>
    /\ rerr' = "ok"
    /\ UNCHANGED <<exists, tracked, log_start, logged, inits, zvars>>

\* log_finish with header.json written before the consolidated summaries
log_finish_header_first(a, buf, counter, master, start, reductions) ==
    LET r == write_buffered_samples(a, buf, counter, master)
        a1 == IF start = "None" THEN r.archive
              ELSE write_entry(r.archive, HEADER_JSON, "EvalLog")
        a2 == write_entry(a1, SUMMARIES_JSON, r.summaries)
        a3 == IF reductions # "None"
              THEN write_entry(a2, REDUCTIONS_JSON, reductions)
              ELSE a2
    IN  [archive |-> a3, summary_counter |-> r.summary_counter,
         summaries |-> r.summaries,
         err |-> IF start = "None" THEN "RuntimeError" ELSE "ok"]

\* the body of log_finish on the archive a and the fields of the log (its
\* buffer, counter, master list and start record): what it leaves of the
\* archive, the counter and the master list, and how it ends
log_finish(a, buf, counter, master, start, reductions) ==
    LET r == write_buffered_samples(a, buf, counter, master)
        a2 == write_entry(r.archive, SUMMARIES_JSON, r.summaries)
        a3 == IF reductions # "None"
              THEN write_entry(a2, REDUCTIONS_JSON, reductions)
              ELSE a2
    IN  IF start = "None"
        THEN \* raise RuntimeError
             [archive |-> a3, summary_counter |-> r.summary_counter,
              summaries |-> r.summaries, err |-> "RuntimeError"]
        ELSE [archive |-> write_entry(a3, HEADER_JSON, "EvalLog"),
              summary_counter |-> r.summary_counter,
              summaries |-> r.summaries, err |-> "ok"]

\* EvalRecorder.log_finish, with reductions or with None
LogFinish ==
    /\ op' = "log_finish"
    /\ tracked
    /\ Count(SUMMARIES_JSON) < MaxFinishes
    /\ \E reductions \in {"None", "reductions"} :
           LET r == log_finish(archive, samples, summary_counter, summaries,
                               log_start, reductions)
           IN  /\ archive' = r.archive
               /\ summary_counter' = r.summary_counter
               /\ summaries' = r.summaries
               /\ rerr' = r.err
               \* del self.data[key], not reached when it raised
               /\ tracked' = (r.err # "ok")
    /\ samples' = <<>>
    /\ UNCHANGED <<exists, log_start, logged, inits, zvars>>

\* _read_header: the header of a finished log, or else the start record
read_header(a) ==
    IF HasName(a, HEADER_JSON) THEN read_json(a, HEADER_JSON)
    ELSE IF HasName(a, START_JSON) THEN read_json(a, START_JSON)
    ELSE "KeyError"

\* no appender: the recorder's archive layer is not ZipAppender
AppenderIdle ==
    /\ file = <<>>
    /\ pos = 0
    /\ closed = FALSE
    /\ existing_entries = <<>>
    /\ pc = "none"
    /\ err = "none"
    /\ file0 = <<>>
    /\ eocd_found = -1
    /\ calls = <<>>

InitRecorder == AppenderIdle /\ RecorderIdle

NextRecorder == LogInit \/ LogStart \/ LogSample \/ Flush \/ LogFinish

SpecRecorder == InitRecorder /\ [][NextRecorder]_vars

\* how many entries of the archive a carry the name
CountIn(a, filename) == Cardinality({i \in 1..Len(a) : a[i].name = filename})

\* the entries of the archive a that are sample files
SampleEntries(a) == SelectSeq(a, LAMBDA e : e.name.kind = "samples")

\* C16 (samples written exactly once): a flush or log_finish writes one
\* samples/<id>_epoch_<epoch>.json entry, holding the sample, for each
\* buffered sample, in buffer order, and nothing else under samples/, and
\* leaves the buffer empty; a sample still buffered has no entry, no sample
\* ever has two, and through the run that created the log every logged
\* sample that is no longer buffered has exactly one.
C16_SamplesOnce ==
    [][ /\ op' \in {"flush", "log_finish"} =>
              /\ samples' = <<>>
              /\ SampleEntries(archive') =
                    SampleEntries(archive) \o
                    [i \in 1..Len(samples) |->
                        [name |-> sample_filename(samples[i].id, samples[i].epoch),
                         data |-> zip_file_data(samples[i])]]
        /\ \A i \in 1..Len(logged') :
              LET n == CountIn(archive', sample_filename(logged'[i].id, logged'[i].epoch))
                  buffered == \E j \in 1..Len(samples') : samples'[j] = logged'[i]
              IN  /\ n <= 1
                  /\ buffered => n = 0
                  /\ (inits' = 1 /\ ~buffered) => n = 1 ]_vars

\* two samples logged, the first written by a flush, the second by log_finish
C16_Witness ==
    /\ Len(logged) = 2
    /\ ~tracked
    /\ inits = 1
    /\ Len(SampleEntries(archive)) = 2
    /\ CountIn(archive, journal_summary_path(2)) = 1
    /\ CountIn(archive, HEADER_JSON) = 1

\* the summaries of a sequence of samples
SummariesOf(seq) == [i \in 1..Len(seq) |-> SampleSummary(seq[i])]

RECURSIVE JournalConcat(_)
\* the journal summary snapshots of the archive a, concatenated in the
\* order written
JournalConcat(a) ==
    IF a = <<>> THEN <<>>
    ELSE IF Head(a).name.kind = "_journal/summaries"
    THEN json_loads(Head(a).data) \o JournalConcat(Tail(a))
    ELSE JournalConcat(Tail(a))

\* C17 (summaries accumulate): through the run that created the log, the
\* master list log.summaries holds exactly one summary per sample flushed
\* so far (the samples logged and no longer buffered), in the order logged,
\* and equals the concatenation of the journal summary snapshots written so
\* far; and the summaries.json a log_finish writes holds one summary for
\* every sample logged, in that order.
C17_SummariesAccumulate ==
    [][ inits' = 1 =>
          /\ summaries' = SummariesOf(SubSeq(logged', 1, Len(logged') - Len(samples')))
          /\ summaries' = JournalConcat(archive')
          /\ op' = "log_finish" =>
                /\ HasName(archive', SUMMARIES_JSON)
                /\ read_json(archive', SUMMARIES_JSON) = SummariesOf(logged) ]_vars

\* two samples flushed by two flushes, then log_finish
C17_Witness ==
    /\ inits = 1
    /\ op = "log_finish"
    /\ Len(logged) = 2
    /\ summary_counter = 2
    /\ Len(summaries) = 2
    /\ HasName(archive, SUMMARIES_JSON)

\* the indices of the journal summary snapshots of the archive a, in the
\* order written
SnapshotIndices(a) ==
    LET snaps == SelectSeq(a, LAMBDA e : e.name.kind = "_journal/summaries")
    IN  [i \in 1..Len(snaps) |-> snaps[i].name.id]

\* C18 (summary counter): a flush or log_finish raises summary_counter by
\* exactly one when it finds a buffered sample and leaves it unchanged when
\* the buffer is empty; and the journal summary snapshots in the archive
\* are named 1.json, 2.json, ... in the order written, with no gap and no
\* name twice, up to the summary_counter of the log being tracked, also on
\* a log that a later log_init resumed.
C18_SummaryCounter ==
    [][ /\ op' \in {"flush", "log_finish"} =>
              summary_counter' = summary_counter + (IF samples # <<>> THEN 1 ELSE 0)
        /\ \A i \in 1..Len(SnapshotIndices(archive')) : SnapshotIndices(archive')[i] = i
        /\ tracked' => summary_counter' = Len(SnapshotIndices(archive')) ]_vars

\* a snapshot written, the log resumed by a second log_init, and a second
\* snapshot written by a flush of the resumed recorder
C18_Witness ==
    /\ inits = 2
    /\ op = "flush"
    /\ summary_counter = 2
    /\ SnapshotIndices(archive) = <<1, 2>>
    /\ samples = <<>>

\* C19 (resume): when log_init opens an existing log that has journal
\* summary snapshots 1..c and no summaries.json, the recovered
\* summary_counter is c and the recovered master list is the concatenation
\* of all c snapshots in index order.
C19_Resume ==
    [][ (op' = "log_init" /\ rerr' = "ok" /\ exists
            /\ ~HasName(archive, SUMMARIES_JSON)) =>
          /\ summary_counter' = Len(SnapshotIndices(archive))
          /\ summaries' = JournalConcat(archive) ]_vars

\* the names of the entries the step wrote
Written == SubSeq(ZipReader_filenames(archive'), Len(archive) + 1, Len(archive'))

\* the index of the first entry of the archive a under the name, 0 if none
FirstIndex(a, filename) ==
    IF HasName(a, filename)
    THEN CHOOSE i \in 1..Len(a) :
             a[i].name = filename /\ \A j \in 1..(i - 1) : a[j].name # filename
    ELSE 0

=============================================================================
